---- MODULE Spec2Model ----
(***************************************************************************)
(* Signaling server for WebRTC screen sharing with remote control.         *)
(*                                                                         *)
(* The repository holds three builds of the server:                        *)
(*   "part_000"  src/unnamed/part_000: grace timers and restore-session;   *)
(*   "part_001"  src/unnamed/part_001: a host's close removes the session; *)
(*   "server"    src/server.js lines 145-373: offline flags,               *)
(*               reconnect-session and the ping loop.                      *)
(* One build runs per process: `variant` is fixed by Init.                 *)
(*                                                                         *)
(* Node runs every callback to its end, so a handler is one atomic step.   *)
(* Each handler is an operator from the state it starts in (and its        *)
(* input) to the record of the state it leaves and of `out`, the messages  *)
(* it sent in the order of its send() calls; the action of the handler     *)
(* installs that record (Apply).                                           *)
(***************************************************************************)
EXTENDS Integers, Sequences, FiniteSets, TLC

\* Bounds of the model.
MaxConn == 3        \* connections accepted over the life of the process
MaxCode == 2        \* size of the space Math.random() draws session codes from
MaxSession == 2     \* create-session requests served over the life of the process

Null == 0           \* JavaScript null / undefined for an id

Variants == {"part_000", "part_001", "server"}
Conns == 1..MaxConn
Codes == 1..MaxCode
\* The sessionCode field of a message: a code of the code space, or absent.
CodeInputs == Codes \cup {Null}
\* The role field of restore-session / reconnect-session ("viewer": any other value).
Roles == {"host", "client", "viewer"}
\* The sessionId field of a message: an id create-session may issue, or absent.
SessionIds == 0..MaxSession
\* The types the signaling handler relays, and the payload field of such a
\* message: the handler passes the payload on without reading it, so one value,
\* different from the empty payload of a message that carries none, stands for all.
SignalTypes == {"offer", "answer", "ice-candidate"}
Payloads == {"sdp"}

VARIABLES
    variant,          \* the build that runs
    clients,          \* keys of `clients`: the ids of the open connections
    nextConn,         \* the next uuidv4() connection id
    ws,               \* per open connection: ws._sessionId, ws.isAlive
    sessions,         \* `sessions`: session code -> session object
    nextSession,      \* the next uuidv4() session id
    timers,           \* pending setTimeout callbacks, oldest first
    disconnectTimers, \* `disconnectTimers`: session code -> timer handle
    clientLeft        \* history: ids of the stored sessions whose client closed
                      \* and whose host has accepted no enabling toggle since

vars == <<variant, clients, nextConn, ws, sessions, nextSession, timers,
          disconnectTimers, clientLeft>>

----------------------------------------------------------------------------
\* Messages

Msg(to, type) ==
    [to |-> to, type |-> type, message |-> "", sessionId |-> Null,
     sessionCode |-> Null, from |-> Null, enabled |-> FALSE, payload |-> ""]

Err(to, m) == [Msg(to, "error") EXCEPT !.message = m]

\* Number of messages of `seq` sent to `to` with a type among `types`.
Count(seq, to, types) ==
    Cardinality({i \in DOMAIN seq : seq[i].to = to /\ seq[i].type \in types})

----------------------------------------------------------------------------
\* The state a handler starts in, with nothing sent yet.
Now ==
    [clients |-> clients, nextConn |-> nextConn, ws |-> ws, sessions |-> sessions,
     nextSession |-> nextSession, timers |-> timers,
     disconnectTimers |-> disconnectTimers, out |-> <<>>]

\* The handler's result becomes the state.
Apply(r) ==
    /\ clients' = r.clients
    /\ nextConn' = r.nextConn
    /\ ws' = r.ws
    /\ sessions' = r.sessions
    /\ nextSession' = r.nextSession
    /\ timers' = r.timers
    /\ disconnectTimers' = r.disconnectTimers
    /\ UNCHANGED variant

\* clients[id] is an open socket.
Live(id) == id \in clients

NewSession(sid, c) ==
    [id |-> sid, hostId |-> c, clientId |-> Null, controlEnabled |-> FALSE,
     hostOffline |-> FALSE, clientOffline |-> FALSE]

\* sessions[code] = s
Put(code, s) ==
    [k \in (DOMAIN sessions) \cup {code} |-> IF k = code THEN s ELSE sessions[k]]

\* delete sessions[code]
Delete(code) == [k \in (DOMAIN sessions) \ {code} |-> sessions[k]]

\* Object.values(sessions).find(s => s.id === sessionId): the codes whose session
\* has that id, and the first of them in key order (integer-like keys ascend).
CodesOf(sid) == {k \in DOMAIN sessions : sessions[k].id = sid}
FindCode(sid) == CHOOSE k \in CodesOf(sid) : \A j \in CodesOf(sid) : k <= j

\* The ascending sequence of the members of a set of connection ids: `clients`
\* enumerates its keys in insertion order, which is the order the ids were issued.
RECURSIVE InOrder(_)
InOrder(S) ==
    IF S = {} THEN <<>>
    ELSE LET m == CHOOSE x \in S : \A y \in S : x <= y
         IN <<m>> \o InOrder(S \ {m})

\* broadcastToSession(sessionId, obj)
broadcastToSession(sid, type, enabled) ==
    LET bound == {c \in clients : ws[c].sessionId = sid}
        order == InOrder(bound)
    IN [i \in DOMAIN order |-> [Msg(order[i], type) EXCEPT !.enabled = enabled]]

\* The socket objects after a connection is accepted and after one closes: a
\* closed socket is reachable from no handler that still runs.
Accept(c, w) == [k \in clients \cup {c} |-> IF k = c THEN w ELSE ws[k]]
Drop(c) == [k \in clients \ {c} |-> ws[k]]

\* clearTimeout(disconnectTimers[code])
clearTimeout(code) ==
    IF code \in DOMAIN disconnectTimers
    THEN SelectSeq(timers, LAMBDA t : t.handle # disconnectTimers[code])
    ELSE timers

----------------------------------------------------------------------------
\* src/unnamed/part_000 and src/unnamed/part_001

\* wss.on('connection')
onConnection ==
    LET c == nextConn IN
    [Now EXCEPT !.clients = clients \cup {c},
                !.nextConn = nextConn + 1,
                !.ws = Accept(c, [sessionId |-> Null, isAlive |-> FALSE]),
                !.out = <<[Msg(c, "connected") EXCEPT !.from = c]>>]

\* A message JSON.parse rejects: the handler replies and returns.
invalidJson(c) == [Now EXCEPT !.out = <<Err(c, "invalid-json")>>]

\* A message whose type no branch of the handler names (part_000, part_001).
unknownType(c) == [Now EXCEPT !.out = <<Err(c, "unknown-type")>>]

\* create-session; `code` is the value Math.random() gave
createSession(c, code) ==
    LET sid == nextSession IN
    [Now EXCEPT !.sessions = Put(code, NewSession(sid, c)),
                !.nextSession = nextSession + 1,
                !.ws = [ws EXCEPT ![c].sessionId = sid],
                !.out = <<[Msg(c, "session-created") EXCEPT
                              !.sessionCode = code, !.sessionId = sid]>>]

joinUnknownCode_ResetsBinding(c, code) ==
    [Now EXCEPT !.ws = [ws EXCEPT ![c].sessionId = Null],
                !.out = <<Err(c, "invalid-session-code")>>]

\* join-session naming a code that is no key of `sessions`
joinUnknownCode(c, code) ==
    [Now EXCEPT !.out = <<Err(c, "invalid-session-code")>>]

joinSession_NoHostNotice(c, code) ==
    IF code \notin DOMAIN sessions
    THEN joinUnknownCode(c, code)
    ELSE LET session == sessions[code] IN
         IF ~Live(session.hostId)
         THEN [Now EXCEPT !.sessions = Delete(code),
                          !.out = <<Err(c, "host-not-available")>>]
         ELSE IF session.clientId # Null /\ Live(session.clientId)
         THEN [Now EXCEPT !.out = <<Err(c, "session-already-has-client")>>]
         ELSE [Now EXCEPT
                  !.sessions = [sessions EXCEPT ![code].clientId = c],
                  !.ws = [ws EXCEPT ![c].sessionId = session.id],
                  !.out = <<[Msg(c, "session-joined") EXCEPT
                                !.sessionId = session.id, !.sessionCode = code]>>]

\* join-session
joinSession(c, code) ==
    IF code \notin DOMAIN sessions
    THEN joinUnknownCode(c, code)
    ELSE LET session == sessions[code] IN
         IF ~Live(session.hostId)
         THEN [Now EXCEPT !.sessions = Delete(code),
                          !.out = <<Err(c, "host-not-available")>>]
         ELSE IF session.clientId # Null /\ Live(session.clientId)
         THEN [Now EXCEPT !.out = <<Err(c, "session-already-has-client")>>]
         ELSE [Now EXCEPT
                  !.sessions = [sessions EXCEPT ![code].clientId = c],
                  !.ws = [ws EXCEPT ![c].sessionId = session.id],
                  !.out = <<[Msg(c, "session-joined") EXCEPT
                                !.sessionId = session.id, !.sessionCode = code],
                            [Msg(session.hostId, "client-joined") EXCEPT !.from = c]>>]

restoreSession_ResetsControl(c, code, role) ==
    IF code \in DOMAIN sessions
    THEN LET session == sessions[code]
             cleared == [Now EXCEPT !.timers = clearTimeout(code)]
         IN
         IF role = "host" /\ ~Live(session.hostId)
         THEN [cleared EXCEPT
                  !.sessions = [sessions EXCEPT ![code].hostId = c,
                                                ![code].controlEnabled = FALSE],
                  !.ws = [ws EXCEPT ![c].sessionId = session.id],
                  !.out = <<[Msg(c, "session-restored") EXCEPT
                                !.sessionId = session.id, !.sessionCode = code]>>
                          \o (IF session.clientId # Null /\ Live(session.clientId)
                              THEN <<Msg(session.clientId, "host-reconnected")>>
                              ELSE <<>>)]
         ELSE IF role = "client" /\ ~Live(session.clientId)
         THEN [cleared EXCEPT
                  !.sessions = [sessions EXCEPT ![code].clientId = c],
                  !.ws = [ws EXCEPT ![c].sessionId = session.id],
                  !.out = <<[Msg(c, "session-restored") EXCEPT
                                !.sessionId = session.id, !.sessionCode = code]>>
                          \o (IF Live(session.hostId)
                              THEN <<Msg(session.hostId, "client-reconnected")>>
                              ELSE <<>>)]
         ELSE [cleared EXCEPT !.out = <<Err(c, "no-session-to-restore")>>]
    ELSE [Now EXCEPT !.out = <<Err(c, "no-session-to-restore")>>]

\* restore-session of part_000
restoreSession(c, code, role) ==
    IF code \in DOMAIN sessions
    THEN LET session == sessions[code]
             cleared == [Now EXCEPT !.timers = clearTimeout(code)]
         IN
         IF role = "host" /\ ~Live(session.hostId)
         THEN [cleared EXCEPT
                  !.sessions = [sessions EXCEPT ![code].hostId = c],
                  !.ws = [ws EXCEPT ![c].sessionId = session.id],
                  !.out = <<[Msg(c, "session-restored") EXCEPT
                                !.sessionId = session.id, !.sessionCode = code]>>
                          \o (IF session.clientId # Null /\ Live(session.clientId)
                              THEN <<Msg(session.clientId, "host-reconnected")>>
                              ELSE <<>>)]
         ELSE IF role = "client" /\ ~Live(session.clientId)
         THEN [cleared EXCEPT
                  !.sessions = [sessions EXCEPT ![code].clientId = c],
                  !.ws = [ws EXCEPT ![c].sessionId = session.id],
                  !.out = <<[Msg(c, "session-restored") EXCEPT
                                !.sessionId = session.id, !.sessionCode = code]>>
                          \o (IF Live(session.hostId)
                              THEN <<Msg(session.hostId, "client-reconnected")>>
                              ELSE <<>>)]
         ELSE [cleared EXCEPT !.out = <<Err(c, "no-session-to-restore")>>]
    ELSE [Now EXCEPT !.out = <<Err(c, "no-session-to-restore")>>]

\* offer / answer / ice-candidate of part_000
signaling(c, sid, type, payload) ==
    IF CodesOf(sid) = {}
    THEN [Now EXCEPT !.out = <<Err(c, "unknown-session")>>]
    ELSE LET sessionEntry == sessions[FindCode(sid)]
             targetId == IF sessionEntry.hostId = c
                         THEN sessionEntry.clientId ELSE sessionEntry.hostId
         IN IF Live(targetId)
            THEN [Now EXCEPT !.out = <<[Msg(targetId, type) EXCEPT
                                           !.from = c, !.payload = payload]>>]
            ELSE [Now EXCEPT !.out = <<Err(c, "peer-not-connected")>>]

\* offer / answer / ice-candidate of part_001
signaling_p1(c, sid, type, payload) ==
    IF sid = Null
    THEN [Now EXCEPT !.out = <<Err(c, "missing-sessionId")>>]
    ELSE signaling(c, sid, type, payload)

\* toggle-control
toggleControl(c, sid, enabled) ==
    IF CodesOf(sid) = {}
    THEN [Now EXCEPT !.out = <<Err(c, "unknown-session")>>]
    ELSE IF sessions[FindCode(sid)].hostId # c
    THEN [Now EXCEPT !.out = <<Err(c, "not-host")>>]
    ELSE [Now EXCEPT
             !.sessions = [sessions EXCEPT ![FindCode(sid)].controlEnabled = enabled],
             !.out = broadcastToSession(sid, "control-status", enabled)]

controlGate_Open(s) == TRUE

\* sessionEntry.controlEnabled, the gate of control-event
controlGate(s) == s.controlEnabled

\* control-event of part_000
controlEvent(c, sid) ==
    IF CodesOf(sid) = {} \/ ~controlGate(sessions[FindCode(sid)])
    THEN [Now EXCEPT !.out = <<Err(c, "control-not-enabled")>>]
    ELSE LET sessionEntry == sessions[FindCode(sid)]
             targetId == IF sessionEntry.hostId = c
                         THEN sessionEntry.clientId ELSE sessionEntry.hostId
         IN IF targetId = Null
            THEN Now
            ELSE IF Live(targetId)
            THEN [Now EXCEPT !.out = <<[Msg(targetId, "control-event") EXCEPT
                                           !.from = c]>>]
            ELSE Now

\* control-event of part_001
controlEvent_p1(c, sid) ==
    IF CodesOf(sid) = {}
    THEN [Now EXCEPT !.out = <<Err(c, "unknown-session")>>]
    ELSE LET sessionEntry == sessions[FindCode(sid)]
             targetId == IF sessionEntry.hostId = c
                         THEN sessionEntry.clientId ELSE sessionEntry.hostId
         IN IF ~controlGate(sessionEntry)
            THEN [Now EXCEPT !.out = <<Err(c, "control-not-enabled")>>]
            ELSE IF targetId = Null
            THEN [Now EXCEPT !.out = <<Err(c, "peer-not-connected")>>]
            ELSE IF Live(targetId)
            THEN [Now EXCEPT !.out = <<[Msg(targetId, "control-event") EXCEPT
                                           !.from = c]>>]
            ELSE Now

\* The timer a close arms: setTimeout(() => {...}, 120000) and
\* disconnectTimers[code] = <its handle>.  The handle is named after the closed
\* connection, which arms at most one timer; `s` is the session object the
\* callback captured, named by its id.
Arm(r, c, code, role, sid) ==
    [r EXCEPT
        !.timers = Append(timers, [handle |-> c, code |-> code, role |-> role,
                                   s |-> sid]),
        !.disconnectTimers =
            [k \in (DOMAIN disconnectTimers) \cup {code} |->
                IF k = code THEN c ELSE disconnectTimers[k]]]

\* ws.on('close') of part_000
onClose(c) ==
    LET sessionId == ws[c].sessionId
        gone == [Now EXCEPT !.clients = clients \ {c}, !.ws = Drop(c)]
    IN
    IF sessionId # Null /\ CodesOf(sessionId) # {}
    THEN LET code == FindCode(sessionId)
             s == sessions[code]
         IN IF s.hostId = c
            THEN Arm(gone, c, code, "host", s.id)
            ELSE IF s.clientId = c
            THEN Arm(gone, c, code, "client", s.id)
            ELSE gone
    ELSE gone

onTimer_Unguarded ==
    LET t == Head(timers)
        code == t.code
        fired == [Now EXCEPT !.timers = Tail(timers)]
    IN
    IF code \notin DOMAIN sessions THEN fired
    ELSE IF t.role = "host"
    THEN [fired EXCEPT !.sessions = Delete(code)]
    ELSE [fired EXCEPT
             !.sessions = [sessions EXCEPT ![code].clientId = Null,
                                           ![code].controlEnabled = FALSE]]

onTimer_SameSessionGuard ==
    LET t == Head(timers)
        code == t.code
        fired == [Now EXCEPT !.timers = Tail(timers)]
    IN
    IF code \in DOMAIN sessions /\ sessions[code].id = t.s
    THEN LET s == sessions[code] IN
         IF t.role = "host"
         THEN [fired EXCEPT
                  !.out = IF s.clientId # Null /\ Live(s.clientId)
                          THEN <<Msg(s.clientId, "host-disconnected")>>
                          ELSE <<>>,
                  !.sessions = Delete(code)]
         ELSE [fired EXCEPT
                  !.sessions = [sessions EXCEPT ![code].clientId = Null,
                                                ![code].controlEnabled = FALSE],
                  !.out = IF Live(s.hostId)
                          THEN <<Msg(s.hostId, "client-disconnected")>>
                          ELSE <<>>]
    ELSE fired

\* The callback of the oldest pending grace timer of part_000.  Inside its guard
\* the captured object `s` is sessions[code] (TimerObject below).
onTimer ==
    LET t == Head(timers)
        code == t.code
        fired == [Now EXCEPT !.timers = Tail(timers)]
    IN
    IF t.role = "host"
    THEN IF code \in DOMAIN sessions /\ sessions[code].hostId = t.handle
         THEN LET s == sessions[code] IN
              [fired EXCEPT
                  !.out = IF s.clientId # Null /\ Live(s.clientId)
                          THEN <<Msg(s.clientId, "host-disconnected")>>
                          ELSE <<>>,
                  !.sessions = Delete(code)]
         ELSE fired
    ELSE IF code \in DOMAIN sessions /\ sessions[code].clientId = t.handle
         THEN LET s == sessions[code] IN
              [fired EXCEPT
                  !.sessions = [sessions EXCEPT ![code].clientId = Null,
                                                ![code].controlEnabled = FALSE],
                  !.out = IF Live(s.hostId)
                          THEN <<Msg(s.hostId, "client-disconnected")>>
                          ELSE <<>>]
         ELSE fired

\* ws.on('close') of part_001
onClose_p1(c) ==
    LET sessionId == ws[c].sessionId
        gone == [Now EXCEPT !.clients = clients \ {c}, !.ws = Drop(c)]
    IN
    IF sessionId # Null /\ CodesOf(sessionId) # {}
    THEN LET code == FindCode(sessionId)
             s == sessions[code]
         IN IF s.hostId = c
            THEN [gone EXCEPT
                     !.out = IF s.clientId # Null /\ s.clientId \in gone.clients
                             THEN <<Msg(s.clientId, "host-disconnected")>>
                             ELSE <<>>,
                     !.sessions = Delete(code)]
            ELSE IF s.clientId = c
            THEN [gone EXCEPT
                     !.sessions = [sessions EXCEPT ![code].clientId = Null,
                                                   ![code].controlEnabled = FALSE],
                     !.out = IF s.hostId \in gone.clients
                             THEN <<Msg(s.hostId, "client-disconnected")>>
                             ELSE <<>>]
            ELSE gone
    ELSE gone

----------------------------------------------------------------------------
\* src/server.js, the build of lines 145-373.  ws._role is written by its handlers
\* and read by none of them: it is left out of `ws`.

\* wss.on('connection') of server.js
onConnection_srv ==
    LET c == nextConn IN
    [Now EXCEPT !.clients = clients \cup {c},
                !.nextConn = nextConn + 1,
                !.ws = Accept(c, [sessionId |-> Null, isAlive |-> TRUE]),
                !.out = <<[Msg(c, "connected") EXCEPT !.from = c]>>]

\* reconnect-session of server.js: the first handler of that type; the second one
\* (lines 265-306) is never reached, the first returns for every such message
reconnectSession(c, code, role) ==
    IF code # Null /\ code \in DOMAIN sessions
    THEN LET session == sessions[code]
             bound == [Now EXCEPT !.ws = [ws EXCEPT ![c].sessionId = session.id]]
         IN
         IF role = "host"
         THEN [bound EXCEPT
                  !.sessions = [sessions EXCEPT ![code].hostId = c,
                                                ![code].hostOffline = FALSE],
                  !.out = (IF session.clientId # Null /\ Live(session.clientId)
                           THEN <<Msg(session.clientId, "host-reconnected")>>
                           ELSE <<>>)
                          \o <<[Msg(c, "session-rejoined") EXCEPT
                                   !.sessionId = session.id]>>]
         ELSE [bound EXCEPT
                  !.sessions = [sessions EXCEPT ![code].clientId = c,
                                                ![code].clientOffline = FALSE],
                  !.out = (IF Live(session.hostId)
                           THEN <<Msg(session.hostId, "client-reconnected")>>
                           ELSE <<>>)
                          \o <<[Msg(c, "session-rejoined") EXCEPT
                                   !.sessionId = session.id]>>]
    ELSE Now

\* create-session of server.js
createSession_srv(c, code) ==
    LET sid == nextSession IN
    [Now EXCEPT !.sessions = Put(code, NewSession(sid, c)),
                !.nextSession = nextSession + 1,
                !.ws = [ws EXCEPT ![c].sessionId = sid],
                !.out = <<[Msg(c, "session-created") EXCEPT
                              !.sessionCode = code, !.sessionId = sid]>>]

\* join-session of server.js
joinSession_srv(c, code) ==
    IF code = Null \/ code \notin DOMAIN sessions
    THEN [Now EXCEPT !.out = <<Err(c, "invalid-session-code")>>]
    ELSE LET session == sessions[code] IN
         IF ~Live(session.hostId)
         THEN [Now EXCEPT !.out = <<Err(c, "host-not-available")>>]
         ELSE IF session.clientId # Null /\ Live(session.clientId)
         THEN [Now EXCEPT !.out = <<Err(c, "session-already-has-client")>>]
         ELSE [Now EXCEPT
                  !.sessions = [sessions EXCEPT ![code].clientId = c],
                  !.ws = [ws EXCEPT ![c].sessionId = session.id],
                  !.out = <<[Msg(c, "session-joined") EXCEPT
                                !.sessionId = session.id, !.sessionCode = code],
                            [Msg(session.hostId, "client-joined") EXCEPT !.from = c]>>]

\* offer / answer / ice-candidate of server.js
signaling_srv(c, sid, type, payload) ==
    IF CodesOf(sid) = {}
    THEN [Now EXCEPT !.out = <<Err(c, "unknown-session")>>]
    ELSE LET session == sessions[FindCode(sid)]
             targetId == IF session.hostId = c
                         THEN session.clientId ELSE session.hostId
         IN IF Live(targetId)
            THEN [Now EXCEPT !.out = <<[Msg(targetId, type) EXCEPT
                                           !.from = c, !.payload = payload]>>]
            ELSE Now

\* A message whose type no branch of the handler of server.js names: the handler
\* ends after its last branch without a reply.
unknownType_srv(c) == Now

\* toggle-control of server.js
toggleControl_srv(c, sid, enabled) ==
    IF CodesOf(sid) # {} /\ sessions[FindCode(sid)].hostId = c
    THEN [Now EXCEPT
             !.sessions = [sessions EXCEPT ![FindCode(sid)].controlEnabled = enabled],
             !.out = broadcastToSession(sid, "control-status", enabled)]
    ELSE Now

\* ws.on('close') of server.js
onClose_srv(c) ==
    LET sessionId == ws[c].sessionId
        gone == [Now EXCEPT !.clients = clients \ {c}, !.ws = Drop(c)]
    IN
    IF sessionId # Null /\ CodesOf(sessionId) # {}
    THEN LET code == FindCode(sessionId)
             s == sessions[code]
         IN IF s.hostId = c
            THEN [gone EXCEPT
                     !.sessions = [sessions EXCEPT ![code].hostOffline = TRUE],
                     !.out = IF s.clientId # Null /\ s.clientId \in gone.clients
                             THEN <<Msg(s.clientId, "host-offline")>>
                             ELSE <<>>]
            ELSE IF s.clientId = c
            THEN [gone EXCEPT
                     !.sessions = [sessions EXCEPT ![code].clientOffline = TRUE,
                                                   ![code].controlEnabled = FALSE],
                     !.out = IF s.hostId \in gone.clients
                             THEN <<Msg(s.hostId, "client-offline")>>
                             ELSE <<>>]
            ELSE gone
    ELSE gone

\* heartbeat(), the 'pong' listener of server.js
heartbeat(c) == [Now EXCEPT !.ws = [ws EXCEPT ![c].isAlive = TRUE]]

\* ws.on('close') of server.js for connection c, run in the state r that the
\* callbacks before it in the same turn left; its sends follow theirs.
closeAfter(r, c) ==
    LET sessionId == r.ws[c].sessionId
        found == {k \in DOMAIN r.sessions : r.sessions[k].id = sessionId}
        gone == [r EXCEPT !.clients = r.clients \ {c},
                          !.ws = [k \in r.clients \ {c} |-> r.ws[k]]]
    IN
    IF sessionId # Null /\ found # {}
    THEN LET code == CHOOSE k \in found : \A j \in found : k <= j
             s == r.sessions[code]
         IN IF s.hostId = c
            THEN [gone EXCEPT
                     !.sessions = [r.sessions EXCEPT ![code].hostOffline = TRUE],
                     !.out = r.out \o (IF s.clientId # Null /\ s.clientId \in gone.clients
                                       THEN <<Msg(s.clientId, "host-offline")>>
                                       ELSE <<>>)]
            ELSE IF s.clientId = c
            THEN [gone EXCEPT
                     !.sessions = [r.sessions EXCEPT ![code].clientOffline = TRUE,
                                                     ![code].controlEnabled = FALSE],
                     !.out = r.out \o (IF s.hostId \in gone.clients
                                       THEN <<Msg(s.hostId, "client-offline")>>
                                       ELSE <<>>)]
            ELSE gone
    ELSE gone

\* The 'close' events of the sockets the ping loop terminated, in the order of
\* the terminate() calls.
RECURSIVE closeEach(_, _)
closeEach(r, seq) ==
    IF seq = <<>> THEN r ELSE closeEach(closeAfter(r, Head(seq)), Tail(seq))

pingLoop_ProbesOnly ==
    [Now EXCEPT
        !.ws = [k \in clients |-> [ws[k] EXCEPT !.isAlive = FALSE]],
        !.out = [i \in DOMAIN InOrder(clients) |-> Msg(InOrder(clients)[i], "ping")]]

\* One round of the ping loop of server.js: over wss.clients, in the order the
\* sockets were accepted, a socket whose isAlive is false is terminated, any
\* other gets isAlive = false and a ping; the terminated sockets then emit
\* 'close'.  A ping is a protocol frame: `out` lists it with type "ping".
pingLoop ==
    LET dead == {c \in clients : ~ws[c].isAlive}
        probe == InOrder(clients \ dead)
        probed == [Now EXCEPT
                      !.ws = [k \in clients |-> [ws[k] EXCEPT !.isAlive = FALSE]],
                      !.out = [i \in DOMAIN probe |-> Msg(probe[i], "ping")]]
    IN closeEach(probed, InOrder(dead))

----------------------------------------------------------------------------
\* The handlers of each build, by the event they serve.  The message handlers of
\* part_001 name no restore-session and those of server.js no control-event.

onJoin(c, code) ==
    IF variant = "server" THEN joinSession_srv(c, code) ELSE joinSession(c, code)

onCreate(c, code) ==
    IF variant = "server" THEN createSession_srv(c, code) ELSE createSession(c, code)

onToggle(c, sid, enabled) ==
    IF variant = "server" THEN toggleControl_srv(c, sid, enabled)
    ELSE toggleControl(c, sid, enabled)

onUnknownType(c) ==
    IF variant = "server" THEN unknownType_srv(c) ELSE unknownType(c)

onSignal(c, sid, type, payload) ==
    IF variant = "part_000" THEN signaling(c, sid, type, payload)
    ELSE IF variant = "part_001" THEN signaling_p1(c, sid, type, payload)
    ELSE signaling_srv(c, sid, type, payload)

onControlEvent(c, sid) ==
    IF variant = "part_000" THEN controlEvent(c, sid) ELSE controlEvent_p1(c, sid)

onSocketClose(c) ==
    IF variant = "part_000" THEN onClose(c)
    ELSE IF variant = "part_001" THEN onClose_p1(c)
    ELSE onClose_srv(c)

----------------------------------------------------------------------------
\* The history a step leaves: ids added and removed, and of stored sessions only.
Track(r, add, remove) ==
    clientLeft' = ((clientLeft \cup add) \ remove)
                      \cap {r.sessions[k].id : k \in DOMAIN r.sessions}

\* The close of c is served by the client branch of ws.on('close') for session sid.
ClosesClientOf(c, sid) ==
    /\ sid # Null
    /\ ws[c].sessionId = sid
    /\ CodesOf(sid) # {}
    /\ sessions[FindCode(sid)].hostId # c
    /\ sessions[FindCode(sid)].clientId = c

\* toggle-control from c for session sid passes the host check.
Accepted(c, sid) == CodesOf(sid) # {} /\ sessions[FindCode(sid)].hostId = c

Init ==
    /\ variant \in Variants
    /\ clients = {}
    /\ nextConn = 1
    /\ ws = <<>>
    /\ sessions = <<>>
    /\ nextSession = 1
    /\ timers = <<>>
    /\ disconnectTimers = <<>>
    /\ clientLeft = {}

Connect ==
    /\ nextConn <= MaxConn
    /\ LET r == IF variant = "server" THEN onConnection_srv ELSE onConnection
       IN Apply(r) /\ Track(r, {}, {})

CreateSession(c, code) ==
    /\ c \in clients
    /\ nextSession <= MaxSession
    /\ LET r == onCreate(c, code) IN Apply(r) /\ Track(r, {}, {})

JoinSession(c, code) ==
    /\ c \in clients
    /\ LET r == onJoin(c, code) IN Apply(r) /\ Track(r, {}, {})

RestoreSession(c, code, role) ==
    /\ variant = "part_000"
    /\ c \in clients
    /\ LET r == restoreSession(c, code, role) IN Apply(r) /\ Track(r, {}, {})

ReconnectSession(c, code, role) ==
    /\ variant = "server"
    /\ c \in clients
    /\ LET r == reconnectSession(c, code, role) IN Apply(r) /\ Track(r, {}, {})

ToggleControl(c, sid, enabled) ==
    /\ c \in clients
    /\ LET r == onToggle(c, sid, enabled)
       IN Apply(r)
          /\ Track(r, {}, IF Accepted(c, sid) /\ enabled THEN {sid} ELSE {})

InvalidJson(c) ==
    /\ c \in clients
    /\ LET r == invalidJson(c) IN Apply(r) /\ Track(r, {}, {})

UnknownType(c) ==
    /\ c \in clients
    /\ LET r == onUnknownType(c) IN Apply(r) /\ Track(r, {}, {})

Signal(c, sid, type, payload) ==
    /\ c \in clients
    /\ LET r == onSignal(c, sid, type, payload) IN Apply(r) /\ Track(r, {}, {})

ControlEvent(c, sid) ==
    /\ variant # "server"
    /\ c \in clients
    /\ LET r == onControlEvent(c, sid) IN Apply(r) /\ Track(r, {}, {})

\* A pong frame from an open connection (server.js).
Pong(c) ==
    /\ variant = "server"
    /\ c \in clients
    /\ LET r == heartbeat(c) IN Apply(r) /\ Track(r, {}, {})

\* The setInterval callback of server.js, every 30000 ms.
PingRound ==
    /\ variant = "server"
    /\ LET r == pingLoop
       IN Apply(r)
          /\ Track(r, {sid \in SessionIds :
                          \E c \in clients : ~ws[c].isAlive /\ ClosesClientOf(c, sid)},
                   {})

Close(c) ==
    /\ c \in clients
    /\ LET r == onSocketClose(c)
       IN Apply(r)
          /\ Track(r, {sid \in SessionIds : ClosesClientOf(c, sid)}, {})

\* All timers wait the same 120000 ms: they fire in the order they were armed.
TimerFire ==
    /\ variant = "part_000"
    /\ timers # <<>>
    /\ LET r == onTimer IN Apply(r) /\ Track(r, {}, {})

Next ==
    \/ Connect
    \/ \E c \in Conns, code \in Codes : CreateSession(c, code)
    \/ \E c \in Conns, code \in CodeInputs : JoinSession(c, code)
    \/ \E c \in Conns, code \in CodeInputs, role \in Roles : RestoreSession(c, code, role)
    \/ \E c \in Conns, code \in CodeInputs, role \in Roles :
           ReconnectSession(c, code, role)
    \/ \E c \in Conns, sid \in SessionIds, enabled \in BOOLEAN :
           ToggleControl(c, sid, enabled)
    \/ \E c \in Conns, sid \in SessionIds, type \in SignalTypes, payload \in Payloads :
           Signal(c, sid, type, payload)
    \/ \E c \in Conns, sid \in SessionIds : ControlEvent(c, sid)
    \/ \E c \in Conns : InvalidJson(c)
    \/ \E c \in Conns : UnknownType(c)
    \/ \E c \in Conns : Close(c)
    \/ TimerFire

Spec == Init /\ [][Next]_vars

\* The build of server.js with its liveness monitor.  The ping loop and the pong
\* listener write isAlive, which no other callback reads, and a terminated socket
\* is closed by the close handler that serves Close: Spec leaves the monitor out
\* and MonitorSpec is this build with it.  A relayed signal, a message that is
\* not JSON and a message of an unknown type change no variable in this build:
\* they are stuttering steps, which [MonitorNext]_vars allows already.
MonitorInit == Init /\ variant = "server"

MonitorNext ==
    \/ Connect
    \/ \E c \in Conns, code \in Codes : CreateSession(c, code)
    \/ \E c \in Conns, code \in CodeInputs : JoinSession(c, code)
    \/ \E c \in Conns, code \in CodeInputs, role \in Roles :
           ReconnectSession(c, code, role)
    \/ \E c \in Conns, sid \in SessionIds, enabled \in BOOLEAN :
           ToggleControl(c, sid, enabled)
    \/ \E c \in Conns : Pong(c)
    \/ PingRound
    \/ \E c \in Conns : Close(c)

MonitorSpec == MonitorInit /\ [][MonitorNext]_vars

\* A pending setTimeout callback runs once its 120000 ms have passed: the event
\* loop does not leave an expired timer waiting for ever.
FairSpec == Spec /\ WF_vars(TimerFire)

----------------------------------------------------------------------------
\* Checks of the model itself

\* uuidv4() never repeats: no two stored sessions share an id.
UniqueIds ==
    \A j, k \in DOMAIN sessions : sessions[j].id = sessions[k].id => j = k

\* Where the guard of a grace callback holds, the object `s` it captured is the
\* one stored under its code, so reading `s` reads sessions[code].
TimerObject ==
    \A i \in DOMAIN timers :
        LET t == timers[i] IN
        (t.code \in DOMAIN sessions
            /\ ((t.role = "host" /\ sessions[t.code].hostId = t.handle)
                \/ (t.role = "client" /\ sessions[t.code].clientId = t.handle)))
        => sessions[t.code].id = t.s

----------------------------------------------------------------------------
\* Claims.  A handler's result in a reachable state is what the handler does when
\* it runs there: a claim about a handler quantifies over its inputs in every
\* reachable state.

\* The pending host timers of `code` whose session has no open host connection
\* and whose code no later create-session has drawn again: that host closed, its
\* grace timer has not fired, and no host has come back.
HostTimersInGrace(code) ==
    {i \in DOMAIN timers :
        /\ timers[i].role = "host"
        /\ timers[i].code = code
        /\ ~\E k \in DOMAIN sessions :
              sessions[k].id = timers[i].s /\ Live(sessions[k].hostId)
        /\ code \in DOMAIN sessions => sessions[code].id = timers[i].s}

\* C1: a restore-session with role host, handled from an open connection while the
\* grace timer of the closed host is still pending, finds the session in the store
\* under its code with the id it had, makes that connection the host, and sends
\* exactly one host-reconnected to the bound client that is open, whatever other
\* connections' messages were handled since the close.
C1_HostRestoreWithinGrace ==
    variant = "part_000" =>
    \A c \in clients, code \in Codes :
        \A i \in HostTimersInGrace(code) :
            LET r == restoreSession(c, code, "host") IN
            /\ code \in DOMAIN r.sessions
            /\ r.sessions[code].id = timers[i].s
            /\ r.sessions[code].hostId = c
            /\ \A k \in r.clients :
                  r.sessions[code].clientId = k
                  => Count(r.out, k, {"host-reconnected"}) = 1

\* Every result a handler can leave from the current state.
Outcomes ==
    {onJoin(c, code) : c \in clients, code \in CodeInputs}
    \cup {onSocketClose(c) : c \in clients}
    \cup {onToggle(c, sid, e) : c \in clients, sid \in SessionIds, e \in BOOLEAN}
    \cup (IF nextSession <= MaxSession
          THEN {onCreate(c, code) : c \in clients, code \in Codes} ELSE {})
    \cup (IF variant = "part_000"
          THEN {restoreSession(c, code, role) :
                    c \in clients, code \in CodeInputs, role \in Roles}
          ELSE {})
    \cup (IF variant = "part_000" /\ timers # <<>> THEN {onTimer} ELSE {})
    \cup (IF variant = "server"
          THEN {reconnectSession(c, code, role) :
                    c \in clients, code \in CodeInputs, role \in Roles}
          ELSE {})
    \cup (IF variant # "server"
          THEN {onControlEvent(c, sid) : c \in clients, sid \in SessionIds}
          ELSE {})

\* C2: whichever handler removes a session whose host connection is closed, the
\* session's client connection, if open at that moment, is sent exactly one
\* host-disconnected (host-offline) notification by that handler.
C2_RemovalNotifiesClient ==
    \A r \in Outcomes :
        \A code \in (DOMAIN sessions) \ (DOMAIN r.sessions) :
            LET s == sessions[code] IN
            (s.hostId \notin r.clients /\ s.clientId \in r.clients)
            => Count(r.out, s.clientId, {"host-disconnected", "host-offline"}) = 1

\* The results of the handlers that bind a connection to a slot.
Rebinds(c, code, role) ==
    {onJoin(c, code)}
    \cup (IF variant = "part_000" THEN {restoreSession(c, code, role)} ELSE {})
    \cup (IF variant = "server" THEN {reconnectSession(c, code, role)} ELSE {})

\* C3: restore-session, reconnect-session and join-session leave a slot that names
\* an open connection naming that connection.
C3_RoleExclusivity ==
    \A c \in clients, code \in CodeInputs, role \in Roles :
        \A r \in Rebinds(c, code, role) :
            \A k \in (DOMAIN sessions) \cap (DOMAIN r.sessions) :
                /\ Live(sessions[k].hostId)
                   => r.sessions[k].hostId = sessions[k].hostId
                /\ Live(sessions[k].clientId)
                   => r.sessions[k].clientId = sessions[k].clientId

\* C4: the close of the connection bound as a session's client leaves that
\* session's controlEnabled false.
C4_ClientCloseDisablesControl ==
    \A c \in clients, sid \in SessionIds :
        ClosesClientOf(c, sid)
        => ~onSocketClose(c).sessions[FindCode(sid)].controlEnabled

\* C5: from the close of a session's client until the host's next accepted
\* toggle-control with enabled = true, a connection that becomes the session's
\* client finds controlEnabled false, controlEnabled stays false while a client
\* is connected, and no control-event naming the session is forwarded.
C5_ControlOffUntilReenabled ==
    \A code \in DOMAIN sessions :
        sessions[code].id \in clientLeft
        => /\ Live(sessions[code].clientId) => ~sessions[code].controlEnabled
           /\ \A c \in clients, role \in {"client"} :
                 \A r \in Rebinds(c, code, role) :
                     (code \in DOMAIN r.sessions /\ r.sessions[code].clientId = c)
                     => ~r.sessions[code].controlEnabled
           /\ variant # "server"
              => \A c \in clients :
                    \A i \in DOMAIN onControlEvent(c, sessions[code].id).out :
                        onControlEvent(c, sessions[code].id).out[i].type
                            # "control-event"

C7_ToggleOnlyFromHost ==
    \A c \in clients, sid \in SessionIds, e \in BOOLEAN :
        (CodesOf(sid) # {} /\ sessions[FindCode(sid)].hostId # c)
        => onToggle(c, sid, e) = [Now EXCEPT !.out = <<Err(c, "not-host")>>]

\* C8: an accepted toggle-control sets controlEnabled to the requested value and
\* sends exactly one control-status carrying it to each open connection in the
\* session's host or client slot, and none to any other connection.
C8_ToggleReachesBothSlots ==
    \A c \in clients, sid \in SessionIds, e \in BOOLEAN :
        Accepted(c, sid)
        => LET r == onToggle(c, sid, e)
               s == sessions[FindCode(sid)]
           IN /\ r.sessions[FindCode(sid)].controlEnabled = e
              /\ \A i \in DOMAIN r.out :
                    r.out[i].type = "control-status" /\ r.out[i].enabled = e
              /\ \A k \in Conns :
                    Count(r.out, k, {"control-status"})
                        = IF Live(k) /\ k \in {s.hostId, s.clientId} THEN 1 ELSE 0

\* C9: create-session returns a code that is no key of the store, removes and
\* replaces no stored session, and the store grows by exactly one session.
C9_CreateKeepsSessions ==
    \A c \in clients, code \in Codes :
        nextSession <= MaxSession
        => LET r == onCreate(c, code) IN
           /\ code \notin DOMAIN sessions
           /\ \A k \in DOMAIN sessions :
                 k \in DOMAIN r.sessions /\ r.sessions[k] = sessions[k]
           /\ Cardinality(DOMAIN r.sessions) = Cardinality(DOMAIN sessions) + 1

JoinSucceeds(c, code) ==
    /\ code \in DOMAIN sessions
    /\ Live(sessions[code].hostId)
    /\ ~(sessions[code].clientId # Null /\ Live(sessions[code].clientId))

\* C11: a join-session that succeeds sends exactly one client-joined, carrying the
\* joiner's id, to the session's host and exactly one session-joined, carrying the
\* session's id, to the joiner, and neither message to any other connection; a
\* join-session that fails sends neither.
C11_JoinNotifiesOnce ==
    \A c \in clients, code \in CodeInputs :
        LET r == onJoin(c, code) IN
        IF JoinSucceeds(c, code)
        THEN /\ \A k \in Conns :
                   /\ Count(r.out, k, {"client-joined"})
                          = IF k = sessions[code].hostId THEN 1 ELSE 0
                   /\ Count(r.out, k, {"session-joined"}) = IF k = c THEN 1 ELSE 0
             /\ \A i \in DOMAIN r.out :
                   /\ r.out[i].type = "client-joined" => r.out[i].from = c
                   /\ r.out[i].type = "session-joined"
                      => r.out[i].sessionId = sessions[code].id
        ELSE \A i \in DOMAIN r.out :
                 r.out[i].type \notin {"client-joined", "session-joined"}

\* A third connection joins a session whose earlier client has closed while the
\* host and the joiner are open, and a join of the host itself fails there.
C11_Witness ==
    \E c \in clients, code \in DOMAIN sessions :
        /\ JoinSucceeds(c, code)
        /\ c # sessions[code].hostId
        /\ sessions[code].clientId # Null
        /\ Cardinality(clients) >= 2
        /\ \E d \in clients, other \in CodeInputs : ~JoinSucceeds(d, other)

\* c occupies exactly one slot of session s.
InOneSlot(c, s) == (s.hostId = c) # (s.clientId = c)

\* The connection in the slot of s that c does not occupy.
OtherSlot(c, s) == IF s.hostId = c THEN s.clientId ELSE s.hostId

\* C12: an offer, answer or ice-candidate naming a stored session, from a
\* connection in one of its slots, is delivered to the connection in the other
\* slot and to nobody else, with the type and payload it came with and the
\* sender's id as `from`; if the other slot is empty or names a closed connection
\* nothing is relayed and the sender gets exactly one peer-not-connected error;
\* an id that names no stored session gets unknown-session.  Nothing is stored.
C12_SignalingRouted ==
    \A c \in clients, sid \in SessionIds \ {Null},
       type \in SignalTypes, payload \in Payloads :
        LET r == onSignal(c, sid, type, payload) IN
        IF CodesOf(sid) = {}
        THEN r = [Now EXCEPT !.out = <<Err(c, "unknown-session")>>]
        ELSE LET s == sessions[FindCode(sid)] IN
             InOneSlot(c, s)
             => IF Live(OtherSlot(c, s))
                THEN r = [Now EXCEPT !.out = <<[Msg(OtherSlot(c, s), type) EXCEPT
                                                   !.from = c, !.payload = payload]>>]
                ELSE r = [Now EXCEPT !.out = <<Err(c, "peer-not-connected")>>]

\* C13: a signaling message or control-event naming a stored session, sent by a
\* connection that is neither its host nor its client, is relayed to neither the
\* host nor the client of that session.
C13_RelayOnlyFromMembers ==
    \A c \in clients, sid \in SessionIds :
        CodesOf(sid) # {}
        => LET s == sessions[FindCode(sid)] IN
           c \notin {s.hostId, s.clientId}
           => /\ \A type \in SignalTypes, payload \in Payloads :
                    Count(onSignal(c, sid, type, payload).out, s.hostId, SignalTypes)
                    + Count(onSignal(c, sid, type, payload).out, s.clientId, SignalTypes)
                        = 0
              /\ variant # "server"
                 => Count(onControlEvent(c, sid).out, s.hostId, {"control-event"})
                    + Count(onControlEvent(c, sid).out, s.clientId, {"control-event"})
                        = 0

\* Every result the message handler can leave for a message from connection c.
MessageOutcomes(c) ==
    {invalidJson(c), onUnknownType(c)}
    \cup {onJoin(c, code) : code \in CodeInputs}
    \cup {onToggle(c, sid, e) : sid \in SessionIds, e \in BOOLEAN}
    \cup {onSignal(c, sid, type, payload) :
              sid \in SessionIds, type \in SignalTypes, payload \in Payloads}
    \cup (IF nextSession <= MaxSession
          THEN {onCreate(c, code) : code \in Codes} ELSE {})
    \cup (IF variant = "part_000"
          THEN {restoreSession(c, code, role) : code \in CodeInputs, role \in Roles}
          ELSE {})
    \cup (IF variant = "server"
          THEN {reconnectSession(c, code, role) : code \in CodeInputs, role \in Roles}
          ELSE {})
    \cup (IF variant # "server"
          THEN {onControlEvent(c, sid) : sid \in SessionIds} ELSE {})

\* C14: a message handled with an error reply to its sender leaves the store and
\* every field of every session, the sender's session binding and the pending
\* grace timers as they were.
C14_ErrorRepliesChangeNothing ==
    \A c \in clients :
        \A r \in MessageOutcomes(c) :
            Count(r.out, c, {"error"}) > 0
            => /\ r.sessions = sessions
               /\ r.ws[c].sessionId = ws[c].sessionId
               /\ r.timers = timers

\* Result r keeps every stored session that names connection c in neither slot.
KeepsSessionsWithout(c, r) ==
    \A code \in DOMAIN sessions :
        c \notin {sessions[code].hostId, sessions[code].clientId}
        => code \in DOMAIN r.sessions /\ r.sessions[code] = sessions[code]

\* C15: the close of a connection, the firing of a grace timer that close armed,
\* and an unparsable message from a connection neither remove nor change a
\* session in which that connection is neither the host nor the client.
C15_OthersSessionsUntouched ==
    /\ \A c \in clients :
          /\ KeepsSessionsWithout(c, onSocketClose(c))
          /\ KeepsSessionsWithout(c, invalidJson(c))
    /\ (variant = "part_000" /\ timers # <<>>)
       => KeepsSessionsWithout(Head(timers).handle, onTimer)

\* A grace timer is about to remove or change a session while another stored
\* session names the closed connection in neither slot, and an open connection
\* is outside some stored session.
C15_Witness ==
    /\ variant = "part_000"
    /\ timers # <<>>
    /\ onTimer.sessions # sessions
    /\ \E code \in DOMAIN sessions :
          Head(timers).handle \notin {sessions[code].hostId, sessions[code].clientId}
    /\ \E c \in clients, code \in DOMAIN sessions :
          c \notin {sessions[code].hostId, sessions[code].clientId}

\* The session under `code` has lost its host, whose grace timer is pending, its
\* client connection is open and control is enabled; c is another connection.
HostAwayControlOn(c, code) ==
    /\ variant = "part_000"
    /\ code \in DOMAIN sessions
    /\ HostTimersInGrace(code) # {}
    /\ Live(sessions[code].clientId)
    /\ sessions[code].controlEnabled
    /\ c \in clients \ {sessions[code].clientId}

\* In the session under `code`, a control-event from either of host and client is
\* forwarded to the other, and nothing else is sent.
ControlFlows(code) ==
    LET s == sessions[code] IN
    /\ onControlEvent(s.hostId, s.id).out
           = <<[Msg(s.clientId, "control-event") EXCEPT !.from = s.hostId]>>
    /\ onControlEvent(s.clientId, s.id).out
           = <<[Msg(s.hostId, "control-event") EXCEPT !.from = s.clientId]>>

\* C16: a restore-session with role host, handled while the closed host's grace
\* timer is pending, the client is connected and controlEnabled is true, leaves
\* the session under its code with its id, the restoring connection as host and
\* controlEnabled true, and in the state it leaves a control-event from either
\* party is forwarded to the other.
C16_ControlSurvivesHostRestore ==
    [][\A c \in Conns, code \in Codes :
          (HostAwayControlOn(c, code) /\ RestoreSession(c, code, "host"))
          => /\ code \in DOMAIN sessions'
             /\ sessions'[code] = [sessions[code] EXCEPT !.hostId = c]
             /\ ControlFlows(code)']_vars

\* The state a host restore starts from: host closed with its timer pending,
\* client open, control enabled, and a third connection open to restore from.
C16_Witness ==
    \E c \in clients, code \in Codes :
        /\ HostAwayControlOn(c, code)
        /\ restoreSession(c, code, "host").sessions[code].hostId = c

\* The pending timers a result r no longer holds.
Cancelled(r) ==
    {i \in DOMAIN timers : \A j \in DOMAIN r.timers : r.timers[j] # timers[i]}

\* C17: a restore-session cancels a pending grace timer only if it succeeds and
\* the timer was armed for the session under the restored code by the close of
\* the connection of the restored role.
C17_CancelOnlyBySameRoleRestore ==
    variant = "part_000" =>
    \A c \in clients, code \in CodeInputs, role \in Roles :
        LET r == restoreSession(c, code, role) IN
        \A i \in Cancelled(r) :
            /\ Count(r.out, c, {"session-restored"}) = 1
            /\ timers[i].code = code
            /\ timers[i].role = role
            /\ timers[i].s = sessions[code].id

\* The session with id sid is stored and its host connection is closed.
HostAway(sid) ==
    CodesOf(sid) # {} /\ ~Live(sessions[FindCode(sid)].hostId)

\* C18: with grace timers firing, a stored session of part_000 whose host
\* connection is closed is eventually removed or gets an open host again.
C18_HostlessSessionRemoved ==
    \A sid \in 1..MaxSession :
        (variant = "part_000" /\ HostAway(sid)) ~> ~HostAway(sid)

\* The session with id sid is stored, its client slot names the closed connection
\* k, and a close was served by the client branch of ws.on('close') for it.
ClientAway(sid, k) ==
    /\ CodesOf(sid) # {}
    /\ sid \in clientLeft
    /\ sessions[FindCode(sid)].clientId = k
    /\ ~Live(k)

\* C19: with grace timers firing, a stored session of part_000 whose client slot
\* names a closed connection eventually has that slot cleared with controlEnabled
\* false, unless a connection is bound to the slot or the session is removed
\* first.
C19_ClientSlotCleared ==
    \A sid \in 1..MaxSession, k \in Conns :
        (variant = "part_000" /\ ClientAway(sid, k))
        ~> \/ CodesOf(sid) = {}
           \/ sessions[FindCode(sid)].clientId \notin {k, Null}
           \/ /\ sessions[FindCode(sid)].clientId = Null
              /\ ~sessions[FindCode(sid)].controlEnabled

\* The connection the slot of timer t names in the store now (Null: no session
\* is stored under the timer's code).
SlotNow(t) ==
    IF t.code \notin DOMAIN sessions THEN Null
    ELSE IF t.role = "host" THEN sessions[t.code].hostId
    ELSE sessions[t.code].clientId

\* C20: a grace timer armed by the close of connection c that fires when the slot
\* under its code no longer names c (the slot was rebound, or the session was
\* removed or replaced) changes no session and sends nothing; a timer that
\* changes the store or sends a message found its slot still naming c.
C20_StaleTimerIsNoOp ==
    (variant = "part_000" /\ timers # <<>>)
    => LET t == Head(timers) IN
       /\ SlotNow(t) # t.handle
          => onTimer = [Now EXCEPT !.timers = Tail(timers)]
       /\ (onTimer.sessions # sessions \/ onTimer.out # <<>>)
          => SlotNow(t) = t.handle

\* A timer is due whose session is still stored under its code while its slot has
\* been rebound to another, open connection: the callback leaves the store alone.
C20_Witness ==
    /\ variant = "part_000"
    /\ timers # <<>>
    /\ SlotNow(Head(timers)) \in clients \ {Head(timers).handle}
    /\ sessions[Head(timers).code].id = Head(timers).s
    /\ onTimer.sessions = sessions

\* The connection session s names in the slot of `role`.
SlotOf(s, role) == IF role = "host" THEN s.hostId ELSE s.clientId

\* C21: a restore-session for a role succeeds only when the slot of that role
\* names a closed connection whose grace timer is still pending; on a client slot
\* that is empty (never filled, or cleared by the timer) restore-session with role
\* client is rejected.
C21_RestoreOnlyOfflineSlot ==
    variant = "part_000" =>
    \A c \in clients, code \in DOMAIN sessions, role \in {"host", "client"} :
        LET r == restoreSession(c, code, role)
            k == SlotOf(sessions[code], role)
        IN /\ Count(r.out, c, {"session-restored"}) > 0
              => /\ k # Null
                 /\ ~Live(k)
                 /\ \E i \in DOMAIN timers :
                       /\ timers[i].handle = k
                       /\ timers[i].code = code
                       /\ timers[i].role = role
           /\ (role = "client" /\ k = Null)
              => r = [Now EXCEPT !.out = <<Err(c, "no-session-to-restore")>>]

\* C22: a stored session with controlEnabled true has a client bound, and a
\* toggle-control with enabled = true leaves no session without a client with
\* controlEnabled true.
C22_ControlNeedsClient ==
    /\ \A code \in DOMAIN sessions :
          sessions[code].controlEnabled => sessions[code].clientId # Null
    /\ \A c \in clients, sid \in SessionIds :
          LET r == onToggle(c, sid, TRUE) IN
          \A code \in DOMAIN r.sessions :
              r.sessions[code].controlEnabled => r.sessions[code].clientId # Null

\* C24: no stored session names one connection as both its host and its client,
\* and no join-session or restore-session leaves such a session.
C24_HostIsNotClient ==
    /\ \A code \in DOMAIN sessions :
          sessions[code].clientId # sessions[code].hostId
    /\ \A c \in clients, code \in CodeInputs, role \in Roles :
          \A r \in Rebinds(c, code, role) :
              \A k \in DOMAIN r.sessions :
                  r.sessions[k].clientId # r.sessions[k].hostId

\* The stored sessions that name connection c as host or as client.
SessionsOf(c) ==
    {sessions[code].id : code \in {k \in DOMAIN sessions :
                                      c \in {sessions[k].hostId, sessions[k].clientId}}}

\* C25: an open connection is named as host or client by at most one stored
\* session, and by none but the session its ws._sessionId names.
C25_OneSessionPerConnection ==
    \A c \in clients :
        /\ Cardinality(SessionsOf(c)) <= 1
        /\ SessionsOf(c) \subseteq {ws[c].sessionId}

\* The sends of `seq` other than ping frames.
Sends(seq) == SelectSeq(seq, LAMBDA m : m.type # "ping")

\* Result m leaves isAlive of every connection it keeps open as it was.
KeepsIsAlive(m) == \A k \in m.clients \cap clients : m.ws[k].isAlive = ws[k].isAlive

\* No message from connection c, whatever its type and fields, and no close of c
\* writes isAlive (server.js).
OnlyMonitorWritesIsAlive(c) ==
    /\ KeepsIsAlive(invalidJson(c))
    /\ KeepsIsAlive(onUnknownType(c))
    /\ KeepsIsAlive(onSocketClose(c))
    /\ \A code \in CodeInputs :
          /\ KeepsIsAlive(onJoin(c, code))
          /\ KeepsIsAlive(onCreate(c, code))
          /\ \A role \in Roles : KeepsIsAlive(reconnectSession(c, code, role))
    /\ \A sid \in SessionIds :
          /\ \A e \in BOOLEAN : KeepsIsAlive(onToggle(c, sid, e))
          /\ \A type \in SignalTypes, payload \in Payloads :
                KeepsIsAlive(onSignal(c, sid, type, payload))

\* C23: a round of the ping loop terminates the open connections that have not
\* answered since the round before (isAlive false) and removes them from the
\* registry with the offline marking and the peer notification of the close
\* handler; every other open connection stays, gets one ping and has isAlive
\* false until its pong; a pong sets isAlive and nothing else, and no other
\* callback writes isAlive: a connection that answers each probe survives every
\* round, and one that stops answering is removed by the second round after.
C23_LivenessMonitor ==
    variant = "server" =>
    LET r == pingLoop IN
    /\ \A c \in clients :
          IF ws[c].isAlive
          THEN /\ c \in r.clients
               /\ ~r.ws[c].isAlive
               /\ Count(r.out, c, {"ping"}) = 1
          ELSE /\ c \notin r.clients
               /\ Count(r.out, c, {"ping"}) = 0
               /\ \A sid \in SessionIds \ {Null} :
                     (ws[c].sessionId = sid /\ CodesOf(sid) # {})
                     => LET s == sessions[FindCode(sid)]
                            n == r.sessions[FindCode(sid)]
                        IN /\ s.hostId = c => n.hostOffline
                           /\ (s.hostId # c /\ s.clientId = c)
                              => n.clientOffline /\ ~n.controlEnabled
               /\ {k \in clients : ~ws[k].isAlive} = {c}
                  => /\ r.clients = onClose_srv(c).clients
                     /\ r.sessions = onClose_srv(c).sessions
                     /\ Sends(r.out) = onClose_srv(c).out
    /\ \A c \in clients :
          /\ LET h == heartbeat(c)
             IN /\ h.ws[c].isAlive
                /\ h.clients = clients /\ h.sessions = sessions /\ h.out = <<>>
                /\ \A k \in clients \ {c} : h.ws[k] = ws[k]
                /\ h.ws[c].sessionId = ws[c].sessionId
          /\ OnlyMonitorWritesIsAlive(c)

\* A round is due in which the host of a session has not answered and is
\* terminated while the session's client, which has answered, is probed again
\* and told that the host is offline.
C23_Witness ==
    /\ variant = "server"
    /\ \E c, d \in clients, code \in DOMAIN sessions :
          /\ ~ws[c].isAlive
          /\ ws[d].isAlive
          /\ sessions[code].hostId = c
          /\ sessions[code].clientId = d
          /\ ws[c].sessionId = sessions[code].id
          /\ c \notin pingLoop.clients
          /\ Count(pingLoop.out, d, {"host-offline"}) = 1
====
